---- MODULE Spec2Model ----
(***************************************************************************)
(* Model of the GraphQL documentation generator (generateAll and its       *)
(* helpers) and of the title formatter idToTitle.                          *)
(*                                                                         *)
(* Text is modelled as it is produced: a document's content is the         *)
(* sequence of its lines, each line a string built by concatenation as the *)
(* template literal builds it.  A path is the sequence of its segments.    *)
(* An optional value (description?: string) is <<>> when absent and <<s>>  *)
(* when present, so that an empty description "" is a present one.         *)
(***************************************************************************)
EXTENDS Integers, Sequences, FiniteSets, TLC

VARIABLES pc, input, output, schema, operations, types, loop, idx,
          dirs, files, calls, error,
          id, title, tpc

vars == <<pc, input, output, schema, operations, types, loop, idx,
          dirs, files, calls, error, id, title, tpc>>

genVars == <<pc, input, output, schema, operations, types, loop, idx,
             dirs, files, calls, error>>

titleVars == <<id, title, tpc>>

(***************************************************************************)
(* Bounds of the model.                                                    *)
(***************************************************************************)
\* Largest number of named types in the type map of a loaded schema.
MaxTypes == 4
\* Longest identifier, in characters, given to idToTitle.
MaxIdLen == 3

(***************************************************************************)
(* Generic helpers.                                                        *)
(***************************************************************************)
Range(s) == {s[i] : i \in 1..Len(s)}

\* a ?? b for an optional string a
Coalesce(a, b) == IF a = <<>> THEN b ELSE a[1]

RECURSIVE Concat(_)
Concat(ss) == IF ss = <<>> THEN <<>> ELSE Head(ss) \o Concat(Tail(ss))

RECURSIVE SubsetsUpTo(_, _)
\* the increasing index sequences over 1..n of length at most k
SubsetsUpTo(n, k) ==
  IF n = 0 \/ k = 0 THEN {<<>>}
  ELSE SubsetsUpTo(n - 1, k)
         \cup {Append(s, n) : s \in SubsetsUpTo(n - 1, k - 1)}

(***************************************************************************)
(* The schemas the loader can return.  A named type is a record; a field   *)
(* carries its name, optional description, ordered arguments and the       *)
(* printed form of its type (type.toString()).  The type map is keyed by   *)
(* name, so names in one map are distinct; the root operation types are    *)
(* references into the map (0: the schema has no such root).               *)
(***************************************************************************)
Arg(n, t) == [name |-> n, type |-> t]
Field(n, d, a, t) == [name |-> n, description |-> d, args |-> a, type |-> t]
NamedType(n, o, d, f) == [name |-> n, isObject |-> o, description |-> d, fields |-> f]

TypePool ==
  << NamedType("Query", TRUE, <<>>,
        << Field("getKey", <<>>, <<Arg("id", "ID")>>, "String"),
           Field("Key", <<"">>, <<>>, "Key") >>),
     NamedType("__Schema", TRUE, <<"A GraphQL Schema">>,
        << Field("types", <<>>, <<>>, "[__Type!]!") >>),
     NamedType("Mutation", TRUE, <<"">>,
        << Field("createKey", <<"Create a key">>,
                 <<Arg("name", "String!"), Arg("ttl", "Int")>>, "Key") >>),
     NamedType("String", FALSE, <<"Built-in String">>, <<>>),
     NamedType("Key", TRUE, <<"An API key">>,
        << Field("name", <<>>, <<>>, "String"),
           Field("id", <<>>, <<>>, "ID!") >>),
     NamedType("_Empty", TRUE, <<>>, <<>>) >>

TypeMaps ==
  { [i \in 1..Len(s) |-> TypePool[s[i]]] :
      s \in SubsetsUpTo(Len(TypePool), MaxTypes) }

\* typeName.startsWith(prefix): typeName is prefix followed by some tail
NameTails ==
  {TypePool[i].name : i \in 1..Len(TypePool)} \cup {"Schema", "_Schema", "Empty"}

startsWith(typeName, prefix) == \E tail \in NameTails : typeName = prefix \o tail

\* The types a schema definition can designate as a root operation type: the
\* object types it declares (the "__" introspection types are built in).
RootRefs(typeMap) ==
  {i \in 1..Len(typeMap) :
     typeMap[i].isObject /\ ~ startsWith(typeMap[i].name, "__")}

Schemas ==
  UNION { { [typeMap |-> tm, query |-> q, mutation |-> m, subscription |-> s] :
              q \in RootRefs(tm) \cup {0},
              m \in RootRefs(tm) \cup {0},
              s \in RootRefs(tm) \cup {0} } : tm \in TypeMaps }

NoSchema == [typeMap |-> <<>>, query |-> 0, mutation |-> 0, subscription |-> 0]

(***************************************************************************)
(* String.prototype.trim on a template's lines: the leading and trailing   *)
(* whitespace-only lines go.  The first line kept is always "---" and the  *)
(* descriptions of TypePool end in no whitespace, so no kept line changes. *)
(***************************************************************************)
BlankLines == {"", " ", "  ", "      "}

RECURSIVE TrimStart(_)
TrimStart(ls) ==
  IF ls = <<>> THEN <<>>
  ELSE IF Head(ls) \in BlankLines THEN TrimStart(Tail(ls)) ELSE ls

RECURSIVE TrimEnd(_)
TrimEnd(ls) ==
  IF ls = <<>> THEN <<>>
  ELSE IF ls[Len(ls)] \in BlankLines THEN TrimEnd(SubSeq(ls, 1, Len(ls) - 1))
       ELSE ls

Trim(ls) == TrimEnd(TrimStart(ls))

(***************************************************************************)
(* getOperationType                                                        *)
(***************************************************************************)
getOperationType(s, fieldType) ==
  IF fieldType = s.query THEN "query"
  ELSE IF fieldType = s.mutation THEN "mutation"
  ELSE IF fieldType = s.subscription THEN "subscription"
  ELSE "type"

(***************************************************************************)
(* generateOperations                                                      *)
(***************************************************************************)
\* field.args.map((arg) => `${arg.name}: ${arg.type.toString()}`)
ArgSignatures(field) ==
  [i \in 1..Len(field.args) |-> field.args[i].name \o ": " \o field.args[i].type]

OperationDescription(fieldName, field) ==
  Coalesce(field.description, "Description for " \o fieldName)

\* Mutant: the heading is emitted even when there is nothing to list.
ArgumentsSection_AlwaysHeading(args) ==
  <<"## Arguments", "">> \o [i \in 1..Len(args) |-> "- " \o args[i]]

ArgumentsSection(args) ==
  IF Len(args) > 0
  THEN <<"## Arguments", "">> \o [i \in 1..Len(args) |-> "- " \o args[i]]
  ELSE <<"">>

OperationContent(fieldName, field) ==
  Trim(<< "",
          "---",
          "title: " \o fieldName,
          "description: " \o OperationDescription(fieldName, field),
          "---",
          "",
          "# " \o fieldName,
          "",
          "",
          Coalesce(field.description, ""),
          "" >>
       \o ArgumentsSection(ArgSignatures(field))
       \o << "      " >>)

\* processFields(type): nothing for a missing root, else one entry per field
processFields(s, type) ==
  IF type = 0 THEN <<>>
  ELSE LET fields == s.typeMap[type].fields
       IN  [i \in 1..Len(fields) |->
              [name |-> fields[i].name,
               type |-> getOperationType(s, type),
               content |-> OperationContent(fields[i].name, fields[i])]]

\* Mutant: the mutation root is processed before the query root.
generateOperations_MutationFirst(s) ==
  processFields(s, s.mutation) \o processFields(s, s.query)
    \o processFields(s, s.subscription)

generateOperations(s) ==
  processFields(s, s.query) \o processFields(s, s.mutation)
    \o processFields(s, s.subscription)

(***************************************************************************)
(* generateTypes                                                           *)
(***************************************************************************)
\* Mutant: the root types are not excluded.
IsDocumentedType_RootsIncluded(s, i) ==
  /\ s.typeMap[i].isObject
  /\ ~ startsWith(s.typeMap[i].name, "__")

IsDocumentedType(s, i) ==
  /\ s.typeMap[i].isObject
  /\ ~ startsWith(s.typeMap[i].name, "__")
  /\ i # s.query
  /\ i # s.mutation
  /\ i # s.subscription

FieldDefinitions(type) ==
  [i \in 1..Len(type.fields) |->
     "- " \o type.fields[i].name \o ": " \o type.fields[i].type]

TypeDescription(type) == "Type definition for " \o type.name

FieldsSection(fieldDefinitions) ==
  IF Len(fieldDefinitions) > 0
  THEN <<"  ## Fields", "">> \o fieldDefinitions
  ELSE <<"  ">>

TypeContent(type) ==
  Trim(<< "",
          "---",
          "title: " \o type.name,
          "description: " \o TypeDescription(type),
          "---",
          "",
          "  # " \o type.name,
          "",
          "  " \o Coalesce(type.description, ""),
          "" >>
       \o FieldsSection(FieldDefinitions(type))
       \o << "", " " >>)

RECURSIVE TypesFrom(_, _)
TypesFrom(s, i) ==
  IF i > Len(s.typeMap) THEN <<>>
  ELSE (IF IsDocumentedType(s, i)
        THEN << [name |-> s.typeMap[i].name, content |-> TypeContent(s.typeMap[i])] >>
        ELSE <<>>)
       \o TypesFrom(s, i + 1)

generateTypes(s) == TypesFrom(s, 1)

(***************************************************************************)
(* The filesystem: the set of directories and the content of each file.    *)
(***************************************************************************)
\* dirname(path)
dirname(path) == SubSeq(path, 1, Len(path) - 1)

\* a directory and all of its ancestors
Ancestors(dir) == {SubSeq(dir, 1, k) : k \in 0..Len(dir)}

\* Mutant: mkdir without { recursive: true } fails on an existing directory.
MkdirOutcomes_NotRecursive(dir, existing) ==
  IF dir \in existing THEN {"EEXIST"} ELSE {"ok", "EACCES"}

\* mkdir(dir, { recursive: true }): an existing directory is no error; a
\* directory to be created may be refused by the filesystem.
MkdirOutcomes(dir, existing) ==
  IF dir \in existing THEN {"ok"} ELSE {"ok", "EACCES"}

\* writeFile(path, content) opens with flag 'w': on success the file holds
\* exactly content.
WriteFileResult(fs, path, content) ==
  [p \in DOMAIN fs \cup {path} |-> IF p = path THEN content ELSE fs[p]]

\* A failed writeFile either could not open the file (it is untouched) or
\* failed after the open truncated it (it is left empty, or cut short).
WriteFileFailures(fs, path, content) ==
  {[result |-> "EACCES", files |-> fs]}
    \cup {[result |-> "ENOSPC",
           files |-> WriteFileResult(fs, path, SubSeq(content, 1, k))] :
             k \in {0, Len(content) - 1}}

(***************************************************************************)
(* generateAll: one action per await.                                      *)
(***************************************************************************)
Inputs == {"schema.graphql"}
Outputs == {<<"out">>, <<"content", "docs">>}

\* The output tree before the run: nothing yet, or what an earlier run left.
StaleContent == <<"---", "title: stale", "---">>

InitialFiles(out) ==
  { [p \in {} |-> <<>>],
    [p \in {out \o <<"query", "getKey.mdx">>, out \o <<"types", "Key.mdx">>}
       |-> StaleContent] }

DirsOf(fs) == UNION {Ancestors(dirname(p)) : p \in DOMAIN fs} \cup {<<>>}

\* the document of the current loop iteration
CurrentPath ==
  IF loop = "operations"
  THEN output \o <<operations[idx].type, operations[idx].name \o ".mdx">>
  ELSE output \o <<"types", types[idx].name \o ".mdx">>

CurrentContent ==
  IF loop = "operations" THEN operations[idx].content ELSE types[idx].content

\* where the two for loops stand once iteration k of loop lp is reached
Position(ops, tys, lp, k) ==
  IF lp = "operations" /\ k <= Len(ops)
    THEN [loop |-> "operations", idx |-> k, pc |-> "mkdir"]
  ELSE IF lp = "operations"
    THEN (IF Len(tys) >= 1
          THEN [loop |-> "types", idx |-> 1, pc |-> "mkdir"]
          ELSE [loop |-> "types", idx |-> 1, pc |-> "resolved"])
  ELSE IF k <= Len(tys)
    THEN [loop |-> "types", idx |-> k, pc |-> "mkdir"]
  ELSE [loop |-> "types", idx |-> k, pc |-> "resolved"]

GenInit ==
  /\ pc = "loadSchema"
  /\ input \in Inputs
  /\ output \in Outputs
  /\ schema = NoSchema
  /\ operations = <<>>
  /\ types = <<>>
  /\ loop = "operations"
  /\ idx = 1
  /\ files \in InitialFiles(output)
  /\ dirs = DirsOf(files)
  /\ calls = <<>>
  /\ error = "none"

\* Mutant: the output directory is created before the schema is loaded.
LoadSchemaRejects_AfterMkdir ==
  /\ pc = "loadSchema"
  /\ pc' = "rejected"
  /\ error' = "SchemaParseError"
  /\ dirs' = dirs \cup Ancestors(output)
  /\ calls' = Append(calls, [op |-> "mkdir", path |-> output, result |-> "ok"])
  /\ UNCHANGED <<input, output, schema, operations, types, loop, idx, files>>

\* await loadSchema(...) throws
LoadSchemaRejects ==
  /\ pc = "loadSchema"
  /\ pc' = "rejected"
  /\ error' = "SchemaParseError"
  /\ UNCHANGED <<input, output, schema, operations, types, loop, idx,
                 dirs, files, calls>>

\* await loadSchema(...) returns: both lists are built, then the first loop
\* iteration is entered
LoadSchemaResolves ==
  /\ pc = "loadSchema"
  /\ \E s \in Schemas :
       LET ops == generateOperations(s)
           tys == generateTypes(s)
           pos == Position(ops, tys, "operations", 1)
       IN  /\ schema' = s
           /\ operations' = ops
           /\ types' = tys
           /\ loop' = pos.loop
           /\ idx' = pos.idx
           /\ pc' = pos.pc
  /\ UNCHANGED <<input, output, dirs, files, calls, error>>

\* await mkdir(dirname(path), { recursive: true }) returns
MkdirResolves ==
  /\ pc = "mkdir"
  /\ "ok" \in MkdirOutcomes(dirname(CurrentPath), dirs)
  /\ dirs' = dirs \cup Ancestors(dirname(CurrentPath))
  /\ calls' = Append(calls, [op |-> "mkdir", path |-> dirname(CurrentPath),
                             result |-> "ok"])
  /\ pc' = "writeFile"
  /\ UNCHANGED <<input, output, schema, operations, types, loop, idx,
                 files, error>>

\* await mkdir(...) throws
MkdirRejects ==
  /\ pc = "mkdir"
  /\ \E r \in MkdirOutcomes(dirname(CurrentPath), dirs) \ {"ok"} :
       calls' = Append(calls, [op |-> "mkdir", path |-> dirname(CurrentPath),
                               result |-> r])
  /\ pc' = "rejected"
  /\ error' = "IOError"
  /\ UNCHANGED <<input, output, schema, operations, types, loop, idx,
                 dirs, files>>

\* await writeFile(path, content) returns; the loop goes on
WriteFileResolves ==
  /\ pc = "writeFile"
  /\ files' = WriteFileResult(files, CurrentPath, CurrentContent)
  /\ calls' = Append(calls, [op |-> "writeFile", path |-> CurrentPath,
                             result |-> "ok"])
  /\ LET pos == Position(operations, types, loop, idx + 1)
     IN  /\ loop' = pos.loop
         /\ idx' = pos.idx
         /\ pc' = pos.pc
  /\ UNCHANGED <<input, output, schema, operations, types, dirs, error>>

\* await writeFile(...) throws
WriteFileRejects ==
  /\ pc = "writeFile"
  /\ \E f \in WriteFileFailures(files, CurrentPath, CurrentContent) :
       /\ files' = f.files
       /\ calls' = Append(calls, [op |-> "writeFile", path |-> CurrentPath,
                                  result |-> f.result])
  /\ pc' = "rejected"
  /\ error' = "IOError"
  /\ UNCHANGED <<input, output, schema, operations, types, loop, idx, dirs>>

(***************************************************************************)
(* idToTitle (utils/id-to-title).  An identifier is the sequence of its    *)
(* characters.  A boundary is put before an uppercase letter that follows  *)
(* a lowercase letter or a digit, a hyphen is a boundary, the first letter *)
(* of each segment is capitalized and the segments are joined by a space.  *)
(* A digit that follows a letter opens no segment: the repository's test   *)
(* expects idToTitle('requestId30') to be 'Request Id30'.                  *)
(***************************************************************************)
Lowers == <<"a", "b", "c", "d", "e", "f", "g", "h", "i", "j", "k", "l", "m",
            "n", "o", "p", "q", "r", "s", "t", "u", "v", "w", "x", "y", "z">>
Uppers == <<"A", "B", "C", "D", "E", "F", "G", "H", "I", "J", "K", "L", "M",
            "N", "O", "P", "Q", "R", "S", "T", "U", "V", "W", "X", "Y", "Z">>
Digits == {"0", "1", "2", "3", "4", "5", "6", "7", "8", "9"}

IsLower(c) == c \in Range(Lowers)
IsUpper(c) == c \in Range(Uppers)
IsDigit(c) == c \in Digits

toUpperCase(c) ==
  IF IsLower(c) THEN Uppers[CHOOSE i \in 1..Len(Lowers) : Lowers[i] = c] ELSE c

\* Mutant: a digit that follows a letter opens a segment as well.
TitlePiece_DigitBoundary(s, i) ==
  IF s[i] = "-" THEN <<" ">>
  ELSE IF i = 1 THEN <<toUpperCase(s[i])>>
  ELSE IF IsUpper(s[i]) /\ (IsLower(s[i - 1]) \/ IsDigit(s[i - 1]))
    THEN <<" ", s[i]>>
  ELSE IF IsDigit(s[i]) /\ (IsLower(s[i - 1]) \/ IsUpper(s[i - 1]))
    THEN <<" ", s[i]>>
  ELSE IF s[i - 1] = "-" THEN <<toUpperCase(s[i])>>
  ELSE <<s[i]>>

\* what character i of s contributes to the title
TitlePiece(s, i) ==
  IF s[i] = "-" THEN <<" ">>
  ELSE IF i = 1 THEN <<toUpperCase(s[i])>>
  ELSE IF IsUpper(s[i]) /\ (IsLower(s[i - 1]) \/ IsDigit(s[i - 1]))
    THEN <<" ", s[i]>>
  ELSE IF s[i - 1] = "-" THEN <<toUpperCase(s[i])>>
  ELSE <<s[i]>>

idToTitle(s) == Concat([i \in 1..Len(s) |-> TitlePiece(s, i)])

\* expect(idToTitle(...)).toBe(...)
TitleTests ==
  { [id |-> <<"g", "e", "t", "K", "e", "y">>,
     title |-> <<"G", "e", "t", " ", "K", "e", "y">>],
    [id |-> <<"r", "e", "q", "u", "e", "s", "t", "I", "d", "3", "0">>,
     title |-> <<"R", "e", "q", "u", "e", "s", "t", " ", "I", "d", "3", "0">>],
    [id |-> <<"r", "e", "q", "u", "e", "s", "t", "I", "d", "-", "3", "0">>,
     title |-> <<"R", "e", "q", "u", "e", "s", "t", " ", "I", "d", " ", "3", "0">>] }

TitleAlphabet == {"a", "K", "3", "-", " "}

RECURSIVE StringsUpTo(_)
StringsUpTo(n) ==
  IF n = 0 THEN {<<>>}
  ELSE LET shorter == StringsUpTo(n - 1)
       IN  shorter \cup {Append(s, c) : s \in shorter, c \in TitleAlphabet}

Ids == StringsUpTo(MaxIdLen) \cup {t.id : t \in TitleTests}

TitleIdle ==
  /\ id = <<>>
  /\ title = <<>>
  /\ tpc = "idle"

GenIdle ==
  /\ pc = "idle"
  /\ input = "schema.graphql"
  /\ output = <<"out">>
  /\ schema = NoSchema
  /\ operations = <<>>
  /\ types = <<>>
  /\ loop = "operations"
  /\ idx = 1
  /\ files = [p \in {} |-> <<>>]
  /\ dirs = {<<>>}
  /\ calls = <<>>
  /\ error = "none"

TitleInit ==
  /\ id \in Ids
  /\ title = <<>>
  /\ tpc = "call"

\* idToTitle(id)
Format ==
  /\ tpc = "call"
  /\ title' = idToTitle(id)
  /\ tpc' = "formatted"
  /\ UNCHANGED id

\* idToTitle applied to a title it returned
Reformat ==
  /\ tpc = "formatted"
  /\ title' = idToTitle(title)
  /\ tpc' = "reformatted"
  /\ UNCHANGED id

Init == GenInit /\ TitleIdle

Next ==
  \/ LoadSchemaRejects /\ UNCHANGED titleVars
  \/ LoadSchemaResolves /\ UNCHANGED titleVars
  \/ MkdirResolves /\ UNCHANGED titleVars
  \/ MkdirRejects /\ UNCHANGED titleVars
  \/ WriteFileResolves /\ UNCHANGED titleVars
  \/ WriteFileRejects /\ UNCHANGED titleVars

Spec == Init /\ [][Next]_vars

InitTitle == GenIdle /\ TitleInit

NextTitle ==
  \/ Format /\ UNCHANGED genVars
  \/ Reformat /\ UNCHANGED genVars

SpecTitle == InitTitle /\ [][NextTitle]_vars

(***************************************************************************)
(* Vocabulary of the properties: the members of the loaded schema, read    *)
(* off the schema itself, and the documents of the run.                    *)
(***************************************************************************)
\* the schema has loaded and both document lists exist
Loaded == pc \in {"mkdir", "writeFile", "resolved"} \/ error = "IOError"

Finished == pc = "resolved"

\* the fields of a root type (none for a missing root), in declared order
RootFields(s, root) == IF root = 0 THEN <<>> ELSE s.typeMap[root].fields

\* the operation members: query fields, mutation fields, subscription fields
OperationMembers(s) ==
  RootFields(s, s.query) \o RootFields(s, s.mutation)
    \o RootFields(s, s.subscription)

\* the names of TypePool that begin with "__"
IntrospectionNames == {"__Schema"}

\* the object types that are no root type and not named with a leading "__"
TypeRefs(s) ==
  {i \in 1..Len(s.typeMap) :
     /\ s.typeMap[i].isObject
     /\ i \notin {s.query, s.mutation, s.subscription}
     /\ s.typeMap[i].name \notin IntrospectionNames}

TypeNamed(s, n) == s.typeMap[CHOOSE i \in 1..Len(s.typeMap) : s.typeMap[i].name = n]

\* every document of the run with its output path, in emission order
Documents ==
  [k \in 1..Len(operations) |->
     [path |-> output \o <<operations[k].type, operations[k].name \o ".mdx">>,
      content |-> operations[k].content]]
  \o [k \in 1..Len(types) |->
     [path |-> output \o <<"types", types[k].name \o ".mdx">>,
      content |-> types[k].content]]

Directories == {"query", "mutation", "subscription", "types"}

OkWrites == SelectSeq(calls, LAMBDA c : c.op = "writeFile" /\ c.result = "ok")

(***************************************************************************)
(* C1: a run over a schema with N query fields, M mutation fields, K       *)
(* subscription fields (0 for a missing root) and T object types that are  *)
(* no root and not named "__..." builds exactly N+M+K+T documents, and     *)
(* every output path is a file directly inside exactly one of query/,      *)
(* mutation/, subscription/, types/ under the output root.                 *)
(***************************************************************************)
C1_DocumentCount ==
  Loaded =>
    /\ Len(operations) + Len(types)
         = Len(RootFields(schema, schema.query))
           + Len(RootFields(schema, schema.mutation))
           + Len(RootFields(schema, schema.subscription))
           + Cardinality(TypeRefs(schema))
    /\ \A k \in 1..Len(Documents) :
         Cardinality({d \in Directories :
                        dirname(Documents[k].path) = output \o <<d>>}) = 1

C1_Witness ==
  /\ Finished
  /\ schema.query # schema.mutation
  /\ Len(RootFields(schema, schema.query)) > 1
  /\ Len(RootFields(schema, schema.mutation)) > 0
  /\ schema.subscription = 0
  /\ Cardinality(TypeRefs(schema)) > 0
  /\ \E i \in 1..Len(schema.typeMap) : ~ schema.typeMap[i].isObject

(***************************************************************************)
(* C2: within one run no two documents have the same output path, so no    *)
(* writeFile call targets a path already written in that run.              *)
(***************************************************************************)
C2_UniquePaths ==
  Loaded =>
    /\ \A j, k \in 1..Len(Documents) :
         j # k => Documents[j].path # Documents[k].path
    /\ \A j, k \in 1..Len(calls) :
         (j < k /\ calls[j].op = "writeFile" /\ calls[k].op = "writeFile")
           => calls[j].path # calls[k].path

(***************************************************************************)
(* C3: the front-matter description of a member's document is the member's *)
(* own description when it has one, and the fallback only when it has      *)
(* none: "Description for <name>" for an operation field, "Type definition *)
(* for <name>" for an object type.                                         *)
(***************************************************************************)
C3_Description ==
  Loaded =>
    /\ \A k \in 1..Len(operations) :
         LET f == OperationMembers(schema)[k]
         IN  operations[k].content[3]
               = "description: "
                   \o (IF f.description # <<>> THEN f.description[1]
                       ELSE "Description for " \o f.name)
    /\ \A k \in 1..Len(types) :
         LET t == TypeNamed(schema, types[k].name)
         IN  types[k].content[3]
               = "description: "
                   \o (IF t.description # <<>> THEN t.description[1]
                       ELSE "Type definition for " \o t.name)

(***************************************************************************)
(* C4: an operation document has a "## Arguments" heading iff the field    *)
(* has an argument, a type document a "## Fields" heading iff the type has *)
(* a field; the heading is followed by one "- <name>: <typeSignature>"     *)
(* line per argument / field in declared order, and with nothing to list   *)
(* there is no heading at all.                                             *)
(***************************************************************************)
SectionLists(content, heading, entries) ==
  IF Len(entries) = 0
  THEN ~ \E i \in 1..Len(content) : content[i] \in {heading, "  " \o heading}
  ELSE \E i \in 1..Len(content) :
         /\ content[i] \in {heading, "  " \o heading}
         /\ \A j \in 1..Len(content) : content[j] = content[i] => j = i
         /\ SubSeq(content, i + 1, Len(content))
              = <<"">> \o [e \in 1..Len(entries) |->
                             "- " \o entries[e].name \o ": " \o entries[e].type]

C4_Sections ==
  Loaded =>
    /\ \A k \in 1..Len(operations) :
         SectionLists(operations[k].content, "## Arguments",
                      OperationMembers(schema)[k].args)
    /\ \A k \in 1..Len(types) :
         SectionLists(types[k].content, "## Fields",
                      TypeNamed(schema, types[k].name).fields)

C4_Witness ==
  /\ Finished
  /\ \E k \in 1..Len(operations) : Len(OperationMembers(schema)[k].args) = 2
  /\ \E k \in 1..Len(operations) : Len(OperationMembers(schema)[k].args) = 0
  /\ \E k \in 1..Len(types) : Len(TypeNamed(schema, types[k].name).fields) = 2
  /\ \E k \in 1..Len(types) : Len(TypeNamed(schema, types[k].name).fields) = 0

(***************************************************************************)
(* C5: no mkdir and no writeFile happens before the schema has loaded and  *)
(* both document lists are complete; when loading fails the run is         *)
(* rejected with that error, with no filesystem call made and the          *)
(* filesystem as it was.                                                   *)
(***************************************************************************)
C5_NoWriteBeforeLoad ==
  /\ (pc = "loadSchema" \/ error = "SchemaParseError") =>
       /\ calls = <<>>
       /\ files \in InitialFiles(output)
       /\ dirs = DirsOf(files)
  /\ error = "SchemaParseError" => pc = "rejected"
  /\ calls # <<>> =>
       /\ Loaded
       /\ operations = generateOperations(schema)
       /\ types = generateTypes(schema)

C5_Witness ==
  /\ pc = "rejected"
  /\ error = "SchemaParseError"
  /\ files # [p \in {} |-> <<>>]

(***************************************************************************)
(* C6: when a mkdir or writeFile fails, the run is rejected with the       *)
(* error, the failed call is the last filesystem call of the run (no       *)
(* retry, nothing for the remaining documents), and every file the run     *)
(* wrote before the failure still holds what was written.                  *)
(***************************************************************************)
C6_FailureKeepsWrittenFiles ==
  (pc = "rejected" /\ error = "IOError") =>
    /\ calls # <<>>
    /\ calls[Len(calls)].result # "ok"
    /\ \A j \in 1..(Len(calls) - 1) : calls[j].result = "ok"
    /\ \A j \in 1..Len(OkWrites) :
         /\ Documents[j].path \in DOMAIN files
         /\ files[Documents[j].path] = Documents[j].content

\* The same statement for the runs whose documents have distinct paths.
C6_WhenPathsDistinct ==
  (\A j, k \in 1..Len(Documents) : j # k => Documents[j].path # Documents[k].path)
    => C6_FailureKeepsWrittenFiles

(***************************************************************************)
(* C7: for every document the recursive mkdir of its parent directory has  *)
(* completed before its writeFile starts; mkdir of a directory that exists *)
(* succeeds; a successful writeFile leaves at the path exactly the         *)
(* document's content, whatever the file held, and touches no other file.  *)
(***************************************************************************)
C7_MkdirThenOverwrite ==
  [][ /\ pc' = "writeFile" =>
           /\ pc = "mkdir"
           /\ calls' = Append(calls, [op |-> "mkdir",
                                      path |-> dirname(CurrentPath),
                                      result |-> "ok"])
           /\ Ancestors(dirname(CurrentPath)) \subseteq dirs'
      /\ (pc = "mkdir" /\ dirname(CurrentPath) \in dirs) => pc' = "writeFile"
      /\ files' # files => pc = "writeFile"
      /\ (pc = "writeFile" /\ pc' # "rejected") =>
           /\ dirname(CurrentPath) \in dirs
           /\ DOMAIN files' = DOMAIN files \cup {CurrentPath}
           /\ files'[CurrentPath] = CurrentContent
           /\ \A p \in DOMAIN files : p # CurrentPath => files'[p] = files[p]
    ]_vars

C7_Witness ==
  /\ output \o <<"types", "Key.mdx">> \in DOMAIN files
  /\ files[output \o <<"types", "Key.mdx">>] = StaleContent
  /\ Len(OkWrites) >= 2
  /\ OkWrites[1].path = output \o <<"query", "getKey.mdx">>
  /\ files[OkWrites[1].path] = Documents[1].content
  /\ dirname(OkWrites[2].path) = dirname(OkWrites[1].path)

(***************************************************************************)
(* C8: idToTitle turns camelCase boundaries and hyphens into single spaces *)
(* and capitalizes the first letter of each segment, a digit run after a   *)
(* letter staying attached: 'getKey' gives 'Get Key', 'requestId30' gives  *)
(* 'Request Id30', 'requestId-30' gives 'Request Id 30'; formatting a      *)
(* title again returns it unchanged.                                       *)
(***************************************************************************)
C8_Title ==
  /\ tpc \in {"formatted", "reformatted"} =>
       /\ \A t \in TitleTests : id = t.id => title = t.title
       /\ "-" \notin Range(title)
       /\ " " \notin Range(id) =>
            \A i \in 1..Len(title) :
              (i = 1 \/ title[i - 1] = " ") => ~ IsLower(title[i])
  /\ tpc = "formatted" =>
       \A i \in 2..Len(title) :
         ~ (IsUpper(title[i]) /\ (IsLower(title[i - 1]) \/ IsDigit(title[i - 1])))
  /\ tpc = "reformatted" => title = idToTitle(id)

C8_Witness ==
  /\ tpc = "reformatted"
  /\ id = <<"r", "e", "q", "u", "e", "s", "t", "I", "d", "-", "3", "0">>
  /\ title = <<"R", "e", "q", "u", "e", "s", "t", " ", "I", "d", " ", "3", "0">>

(***************************************************************************)
(* C9: every field of the query root is emitted with kind "query", every   *)
(* field of the mutation root with "mutation", every field of the          *)
(* subscription root with "subscription", never with "type"; an object     *)
(* type gets a types/ document iff it is none of the three root types and  *)
(* its name does not start with "__".                                      *)
(***************************************************************************)
C9_Classification ==
  Loaded =>
    LET n == Len(RootFields(schema, schema.query))
        m == Len(RootFields(schema, schema.mutation))
    IN  /\ \A k \in 1..Len(operations) :
             operations[k].type
               = (IF k <= n THEN "query"
                  ELSE IF k <= n + m THEN "mutation" ELSE "subscription")
        /\ {types[k].name : k \in 1..Len(types)}
             = {schema.typeMap[i].name : i \in TypeRefs(schema)}

\* The part of the statement that does not depend on which root is asked
\* first: no operation has kind "type", and the types/ documents are those
\* of the non-root, non-"__" object types.
C9_TypesAndNoFallback ==
  Loaded =>
    /\ \A k \in 1..Len(operations) : operations[k].type # "type"
    /\ {types[k].name : k \in 1..Len(types)}
         = {schema.typeMap[i].name : i \in TypeRefs(schema)}

(***************************************************************************)
(* C10: the filesystem calls of a run are made one at a time in a fixed    *)
(* order: for the query fields in declared order, then the mutation        *)
(* fields, then the subscription fields, then the types in type-map order, *)
(* the mkdir of a document's directory and then its writeFile; so what has *)
(* been written is always a prefix of that order.                          *)
(***************************************************************************)
RECURSIVE TypeNamesFrom(_, _)
TypeNamesFrom(s, i) ==
  IF i > Len(s.typeMap) THEN <<>>
  ELSE (IF i \in TypeRefs(s) THEN <<s.typeMap[i].name>> ELSE <<>>)
       \o TypeNamesFrom(s, i + 1)

ExpectedNames(s) ==
  [k \in 1..Len(OperationMembers(s)) |-> OperationMembers(s)[k].name]
    \o TypeNamesFrom(s, 1)

C10_WriteOrder ==
  LET names == ExpectedNames(schema)
      nOps == Len(OperationMembers(schema))
  IN  /\ Len(calls) <= 2 * Len(names)
      /\ \A j \in 1..Len(calls) :
           LET d == (j + 1) \div 2
               dir == IF j % 2 = 1 THEN calls[j].path ELSE dirname(calls[j].path)
           IN  /\ calls[j].op = (IF j % 2 = 1 THEN "mkdir" ELSE "writeFile")
               /\ j < Len(calls) => calls[j].result = "ok"
               /\ Len(dir) = Len(output) + 1
               /\ SubSeq(dir, 1, Len(output)) = output
               /\ IF d <= nOps
                  THEN dir[Len(dir)] \in {"query", "mutation", "subscription"}
                  ELSE dir[Len(dir)] = "types"
               /\ j % 2 = 0 =>
                    /\ calls[j].path[Len(calls[j].path)] = names[d] \o ".mdx"
                    /\ calls[j - 1].path = dir
      /\ pc = "writeFile" => Len(calls) % 2 = 1
      /\ pc = "mkdir" => Len(calls) % 2 = 0
      /\ Finished => Len(calls) = 2 * Len(names)

C10_Witness ==
  /\ Finished
  /\ Cardinality({schema.query, schema.mutation, schema.subscription, 0}) = 4
  /\ Len(RootFields(schema, schema.query)) = 2
  /\ Len(RootFields(schema, schema.mutation)) = 1
  /\ Len(RootFields(schema, schema.subscription)) = 2
  /\ Len(types) = 1
  /\ Len(calls) = 12

====
